---- MODULE Spec2Model ----
(***************************************************************************)
(* Cobweb (src/cobweb.py): an incremental concept-formation tree.          *)
(*                                                                         *)
(* The heap of Cobweb objects is the function `heap` from object           *)
(* references (1, 2, ...) to node records; an object that a split or a     *)
(* prune detaches stays in the heap, as it does in Python while something  *)
(* still refers to it.  The cobweb() loop is modelled one iteration per    *)
(* step, so the states between two iterations are states of the model.     *)
(*                                                                         *)
(* Utilities are Python floats in the source.  Here they are exact         *)
(* rationals <<numerator, denominator>>; for the instances and bounds of   *)
(* this module the float computation of the source and the exact one take  *)
(* the same branch at every comparison.                                    *)
(***************************************************************************)
EXTENDS Integers, Sequences, FiniteSets, TLC

\* ------------------------------------------------------------- bounds
\* ifit calls made on one tree
MaxInstances == 5
\* root.split calls made on one tree
MaxSplits == 1

\* ------------------------------------------------------------- inputs
Attrs == {"color", "trim"}
Vals == {"red", "blue"}
Pairs == Attrs \X Vals
PairSeq == << <<"color", "red">>, <<"color", "blue">>,
              <<"trim", "red">>, <<"trim", "blue">> >>

\* An instance is a mapping from some attributes to values.
Instances ==
  {[color |-> "red"], [color |-> "blue"],
   [color |-> "red", trim |-> "red"], [trim |-> "blue"]}

\* The values given to the class variable min_cu: the default 0.0, and 0.25.
MinCuDefault == <<0, 1>>
MinCuChoices == {MinCuDefault, <<1, 4>>}

\* The instance in hand when there is none.
NoInstance == <<>>

\* The value of a parent link that is None.
None == 0
\* The None that two_best_children returns in place of a (utility, child).
NoPair == <<>>

\* ------------------------------------------------------------- exact arithmetic
RECURSIVE Gcd(_, _)
Gcd(a, b) == IF b = 0 THEN a ELSE Gcd(b, a % b)

Abs(x) == IF x < 0 THEN -x ELSE x

\* A rational in lowest terms with a positive denominator.
Norm(n, d) ==
  LET g == Gcd(Abs(n), Abs(d))
      s == IF d < 0 THEN -1 ELSE 1
  IN  IF g = 0 THEN <<0, 1>> ELSE <<s * (n \div g), s * (d \div g)>>

Zero == <<0, 1>>

\* x and y brought to their least common denominator: <<nx, ny, d>>.
Common(x, y) ==
  LET g == Gcd(x[2], y[2])
  IN  <<x[1] * (y[2] \div g), y[1] * (x[2] \div g), (x[2] \div g) * y[2]>>

RAdd(x, y) == LET c == Common(x, y) IN Norm(c[1] + c[2], c[3])
RSub(x, y) == LET c == Common(x, y) IN Norm(c[1] - c[2], c[3])
RMul(x, y) ==
  LET a == Norm(x[1], y[2])
      b == Norm(y[1], x[2])
  IN  Norm(a[1] * b[1], a[2] * b[2])
RDiv(x, y) == RMul(x, Norm(y[2], y[1]))
RLess(x, y) == x[1] * (y[2] \div Gcd(x[2], y[2])) < y[1] * (x[2] \div Gcd(x[2], y[2]))
RLeq(x, y) == ~RLess(y, x)
REq(x, y) == Norm(x[1], x[2]) = Norm(y[1], y[2])

RECURSIVE RSum(_)
RSum(s) == IF s = <<>> THEN Zero ELSE RAdd(Head(s), RSum(Tail(s)))

\* ------------------------------------------------------------- nodes
\* str(n): the decimal digits of n, most significant first.
RECURSIVE str(_)
str(n) == IF n < 10 THEN <<n>> ELSE Append(str(n \div 10), n % 10)

\* gensym with line 65 left out: the counter stays where it was.
gensym_without_increment(c) == [counter |-> c, sym |-> str(c + 1)]

\* gensym: increments the class counter and returns it as a string.
gensym(c) == [counter |-> c + 1, sym |-> str(c + 1)]

\* Cobweb(): a node with default values, named with the symbol `sym`.
NewNode(sym) ==
  [concept_name |-> <<"Concept">> \o sym,
   count |-> 0,
   av_counts |-> [p \in Pairs |-> 0],
   children |-> <<>>,
   parent |-> None]

\* increment_counts with line 94 setting the count of a value to 1 where it
\* adds 1.
increment_counts_setting_one(n, instance) ==
  [n EXCEPT !.count = @ + 1,
            !.av_counts = [p \in Pairs |->
               IF p[1] \in DOMAIN instance /\ instance[p[1]] = p[2]
               THEN 1 ELSE @[p]]]

increment_counts(n, instance) ==
  [n EXCEPT !.count = @ + 1,
            !.av_counts = [p \in Pairs |->
               IF p[1] \in DOMAIN instance /\ instance[p[1]] = p[2]
               THEN @[p] + 1 ELSE @[p]]]

update_counts_from_node(n, node) ==
  [n EXCEPT !.count = @ + node.count,
            !.av_counts = [p \in Pairs |-> @[p] + node.av_counts[p]]]

expected_correct_guesses(n) ==
  RSum([i \in 1..Len(PairSeq) |->
          LET prob == Norm(n.av_counts[PairSeq[i]], n.count)
          IN  RMul(prob, prob)] \o <<>>)

\* n.get_probability(attr, val); a pair never counted has the count 0.
get_probability(n, attr, val) ==
  IF n.av_counts[<<attr, val>>] = 0 THEN Zero
  ELSE Norm(n.av_counts[<<attr, val>>], n.count)

\* The records of the children of the object r of heap h, in order.
Kids(h, r) == [i \in 1..Len(h[r].children) |-> h[h[r].children[i]]] \o <<>>

\* category_utility with the difference of lines 520-521 taken the other
\* way round: the guesses of the node less those of the child.
category_utility_reversed(h, self) ==
  LET kids == Kids(h, self)
      own == expected_correct_guesses(h[self])
  IN  IF Len(kids) = 0 THEN Zero
      ELSE RDiv(RSum([i \in 1..Len(kids) |->
                        RMul(Norm(kids[i].count, h[self].count),
                             RSub(own, expected_correct_guesses(kids[i])))]
                     \o <<>>),
                <<Len(kids), 1>>)

\* self.category_utility() for the object self of heap h.
category_utility(h, self) ==
  LET kids == Kids(h, self)
      own == expected_correct_guesses(h[self])
  IN  IF Len(kids) = 0 THEN Zero
      ELSE RDiv(RSum([i \in 1..Len(kids) |->
                        RMul(Norm(kids[i].count, h[self].count),
                             RSub(expected_correct_guesses(kids[i]), own))]
                     \o <<>>),
                <<Len(kids), 1>>)

\* ------------------------------------------------------------- objects
\* The memory the methods work on: the objects, the class counter, and the
\* symbols gensym has returned since the step began.
Mem(h, c, i) == [heap |-> h, counter |-> c, issued |-> i]

\* The reference of the next object constructed.
NewRef(S) == Len(S.heap) + 1

\* Cobweb(): constructs the object NewRef(S).
new(S) ==
  LET g == gensym(S.counter)
  IN  [heap |-> Append(S.heap, NewNode(g.sym)),
       counter |-> g.counter,
       issued |-> Append(S.issued, g.sym)]

\* r.increment_counts(inst)
inc(S, r, inst) == [S EXCEPT !.heap[r] = increment_counts(@, inst)]

\* r.update_counts_from_node(node)
upd(S, r, node) ==
  [S EXCEPT !.heap[r] = update_counts_from_node(@, S.heap[node])]

\* r.children.append(c)
append_child(S, r, c) == [S EXCEPT !.heap[r].children = Append(@, c)]

\* c.parent = r
set_parent(S, c, r) == [S EXCEPT !.heap[c].parent = r]

\* Objects that nothing refers to any more are collected: the objects an
\* evaluator constructed, all after the first n.
Collect(S, n) == [S EXCEPT !.heap = SubSeq(@, 1, n)]

\* list.remove(x): the list without the first occurrence of x.
Remove(s, x) ==
  LET k == CHOOSE i \in 1..Len(s) :
             s[i] = x /\ \A j \in 1..(i - 1) : s[j] # x
  IN  SubSeq(s, 1, k - 1) \o SubSeq(s, k + 1, Len(s))

\* The copy constructor Cobweb(otherTree): constructs NewRef(S) with the
\* counts and the parent of otherTree, and a copy of each of its children.
RECURSIVE copy_tree(_, _)
RECURSIVE copy_trees(_, _, _)
copy_tree(S, otherTree) ==
  LET n == NewRef(S)
      S1 == set_parent(upd(new(S), n, otherTree), n, S.heap[otherTree].parent)
  IN  copy_trees(S1, n, S.heap[otherTree].children)

copy_trees(S, n, cs) ==
  IF cs = <<>> THEN S
  ELSE copy_trees(append_child(copy_tree(S, Head(cs)), n, NewRef(S)),
                  n, Tail(cs))

\* The loop shared by the evaluators: for each c of cs not in skip, a new
\* node with the counts of c is appended to temp.children; the copy of
\* `child` also takes the instance.
RECURSIVE copy_children(_, _, _, _, _, _)
copy_children(S, temp, cs, skip, child, inst) ==
  IF cs = <<>> THEN S
  ELSE IF Head(cs) \in skip
  THEN copy_children(S, temp, Tail(cs), skip, child, inst)
  ELSE LET temp_child == NewRef(S)
           S1 == append_child(upd(new(S), temp_child, Head(cs)),
                              temp, temp_child)
           S2 == IF Head(cs) = child THEN inc(S1, temp_child, inst) ELSE S1
       IN  copy_children(S2, temp, Tail(cs), skip, child, inst)

\* self.shallow_copy(): the copy is NewRef(S).
shallow_copy(S, self) ==
  copy_children(upd(new(S), NewRef(S), self), NewRef(S),
                S.heap[self].children, {}, None, NoInstance)

\* create_new_child with line 155 left out: the child has no parent.
create_new_child_without_parent(S, self, inst) ==
  append_child(inc(new(S), NewRef(S), inst), self, NewRef(S))

\* self.create_new_child(instance): the child is NewRef(S).
create_new_child(S, self, inst) ==
  LET new_child == NewRef(S)
  IN  append_child(inc(set_parent(new(S), new_child, self), new_child, inst),
                   self, new_child)

\* create_child_with_current_counts with the test of line 165 off by one.
create_child_when_count_above_one(S, self) ==
  IF S.heap[self].count > 1
  THEN append_child(set_parent(copy_tree(S, self), NewRef(S), self),
                    self, NewRef(S))
  ELSE S

\* self.create_child_with_current_counts(): the child, if one is made, is
\* NewRef(S).
create_child_with_current_counts(S, self) ==
  IF S.heap[self].count > 0
  THEN append_child(set_parent(copy_tree(S, self), NewRef(S), self),
                    self, NewRef(S))
  ELSE S

\* merge with line 194 left out: the merged node lacks the counts of best2.
merge_without_best2_counts(S, self, best1, best2) ==
  LET new_child == NewRef(S)
      S1 == upd(set_parent(new(S), new_child, self), new_child, best1)
      S2 == set_parent(set_parent(S1, best1, new_child), best2, new_child)
      S3 == append_child(append_child(S2, new_child, best1), new_child, best2)
  IN  append_child(
        [S3 EXCEPT !.heap[self].children = Remove(Remove(@, best1), best2)],
        self, new_child)

\* self.merge(best1, best2): the merged node is NewRef(S).
merge(S, self, best1, best2) ==
  LET new_child == NewRef(S)
      S1 == upd(upd(set_parent(new(S), new_child, self), new_child, best1),
                new_child, best2)
      S2 == set_parent(set_parent(S1, best1, new_child), best2, new_child)
      S3 == append_child(append_child(S2, new_child, best1), new_child, best2)
  IN  append_child(
        [S3 EXCEPT !.heap[self].children = Remove(Remove(@, best1), best2)],
        self, new_child)

\* The loop of split: each child of best gets the parent self and is
\* appended to self.children.
RECURSIVE promote(_, _, _)
promote(S, self, cs) ==
  IF cs = <<>> THEN S
  ELSE promote(append_child(set_parent(S, Head(cs), self), self, Head(cs)),
               self, Tail(cs))

\* split with line 240 left out: the promoted children keep their parent.
split_keeping_parent(S, self, best) ==
  [S EXCEPT !.heap[self].children = Remove(@, best) \o S.heap[best].children]

\* self.split(best)
split(S, self, best) ==
  promote([S EXCEPT !.heap[self].children = Remove(@, best)],
          self, S.heap[best].children)

\* ------------------------------------------------------------- evaluators
\* What an evaluator returns: temp.category_utility(), with the memory the
\* evaluator leaves.
Evaluated(S, temp) == [mem |-> S, cu |-> category_utility(S.heap, temp)]

\* cu_for_insert with line 146 incrementing c, the child of the tree, in
\* place of its copy.
cu_for_insert_in_place(S, self, child, inst) ==
  Evaluated(copy_children(inc(inc(upd(new(S), NewRef(S), self), NewRef(S), inst),
                              child, inst),
                          NewRef(S), S.heap[self].children, {}, None, NoInstance),
            NewRef(S))

cu_for_insert(S, self, child, inst) ==
  Evaluated(copy_children(inc(upd(new(S), NewRef(S), self), NewRef(S), inst),
                          NewRef(S), S.heap[self].children, {}, child, inst),
            NewRef(S))

\* cu_for_new_child with self in place of the copy of line 176.
cu_for_new_child_in_place(S, self, inst) ==
  Evaluated(create_new_child(inc(S, self, inst), self, inst), self)

cu_for_new_child(S, self, inst) ==
  Evaluated(create_new_child(inc(shallow_copy(S, self), NewRef(S), inst),
                             NewRef(S), inst),
            NewRef(S))

\* cu_for_merge with line 222 left out: the merged copy lacks the instance.
cu_for_merge_without_instance(S, self, best1, best2, inst) ==
  LET temp == NewRef(S)
      new_child == NewRef(S) + 1
      S1 == new(inc(upd(new(S), temp, self), temp, inst))
      S2 == append_child(upd(upd(S1, new_child, best1), new_child, best2),
                         temp, new_child)
  IN  Evaluated(copy_children(S2, temp, S.heap[self].children,
                              {best1, best2}, None, NoInstance),
                temp)

\* temp is NewRef(S) and new_child the object constructed after it.
cu_for_merge(S, self, best1, best2, inst) ==
  LET temp == NewRef(S)
      new_child == NewRef(S) + 1
      S1 == new(inc(upd(new(S), temp, self), temp, inst))
      S2 == append_child(
              inc(upd(upd(S1, new_child, best1), new_child, best2),
                  new_child, inst),
              temp, new_child)
  IN  Evaluated(copy_children(S2, temp, S.heap[self].children,
                              {best1, best2}, None, NoInstance),
                temp)

cu_for_split(S, self, best) ==
  Evaluated(copy_children(upd(new(S), NewRef(S), self), NewRef(S),
                          S.heap[self].children \o S.heap[best].children,
                          {best}, None, NoInstance),
            NewRef(S))

\* cu_for_fringe_split with line 255 left out: temp keeps the count of self.
cu_for_fringe_split_without_increment(S, self, inst) ==
  LET temp == NewRef(S)
      S1 == create_child_with_current_counts(upd(new(S), temp, self), temp)
  IN  Evaluated(create_new_child(S1, temp, inst), temp)

cu_for_fringe_split(S, self, inst) ==
  LET temp == NewRef(S)
      S1 == create_child_with_current_counts(upd(new(S), temp, self), temp)
  IN  Evaluated(create_new_child(inc(S1, temp, inst), temp, inst), temp)

\* ------------------------------------------------------------- ranking
\* two_best_children sorts on the utility alone (key=lambda x: x[0]).
KeyLess(x, y) == RLess(x[1], y[1])

\* The sort with the entries of equal utility in the reverse of the order
\* they had, as reversing an ascending stable sort leaves them.
SortByKeyDesc_reversing_ties(s) ==
  LET rank(i) ==
        1 + Cardinality({j \in 1..Len(s) : KeyLess(s[i], s[j])})
          + Cardinality({j \in (i + 1)..Len(s) :
                           ~KeyLess(s[i], s[j]) /\ ~KeyLess(s[j], s[i])})
  IN  [k \in 1..Len(s) |-> s[CHOOSE i \in 1..Len(s) : rank(i) = k]] \o <<>>

\* children_cu.sort(key=..., reverse=True): a stable sort into descending
\* order; the entries of equal utility keep the order they had.
SortByKeyDesc(s) ==
  LET rank(i) ==
        1 + Cardinality({j \in 1..Len(s) : KeyLess(s[i], s[j])})
          + Cardinality({j \in 1..(i - 1) :
                           ~KeyLess(s[i], s[j]) /\ ~KeyLess(s[j], s[i])})
  IN  [k \in 1..Len(s) |-> s[CHOOSE i \in 1..Len(s) : rank(i) = k]] \o <<>> \o <<>>

\* [(self.cu_for_insert(child, instance), child) for child in cs], after
\* the pairs `acc` already computed; children_cu_next takes the result r
\* of cu_for_insert for the first child of cs.
RECURSIVE children_cu(_, _, _, _, _)
RECURSIVE children_cu_next(_, _, _, _, _)
children_cu(S, self, cs, inst, acc) ==
  IF cs = <<>> THEN [mem |-> S, list |-> acc]
  ELSE children_cu_next(cu_for_insert(S, self, Head(cs), inst),
                        self, cs, inst, acc)

children_cu_next(r, self, cs, inst, acc) ==
  children_cu(r.mem, self, Tail(cs), inst, Append(acc, <<r.cu, Head(cs)>>))

\* No exception raised.
NoException == ""

\* Lines 127-130: the first two of the sorted list s; best2 is NoPair when
\* there is one child.
first_two(S, s) ==
  [mem |-> S, raised |-> NoException, best1 |-> s[1],
   best2 |-> IF Len(s) = 1 THEN NoPair ELSE s[2]]

\* Line 125 on the list r of (utility, child) pairs.
sorted_two(r) == first_two(r.mem, SortByKeyDesc(r.list))

\* two_best_children with lines 120-121 left out, and the node itself
\* given back for want of a child.
two_best_children_without_raise(S, self, inst) ==
  IF S.heap[self].children = <<>>
  THEN [mem |-> S, raised |-> NoException, best1 |-> <<Zero, self>>,
        best2 |-> NoPair]
  ELSE sorted_two(children_cu(S, self, S.heap[self].children, inst, <<>>))

\* self.two_best_children(instance): best1 and best2 are (utility, child)
\* pairs; on a node without children the call raises and returns nothing.
two_best_children(S, self, inst) ==
  IF S.heap[self].children = <<>>
  THEN [mem |-> S, raised |-> "No children!"]
  ELSE sorted_two(children_cu(S, self, S.heap[self].children, inst, <<>>))

\* self.cobweb_categorize(instance): the leaf reached by following best1;
\* categorize_next takes what two_best_children returned at current.
RECURSIVE cobweb_categorize(_, _, _)
RECURSIVE categorize_next(_, _)
cobweb_categorize(S, current, inst) ==
  IF S.heap[current].children = <<>> THEN [mem |-> S, leaf |-> current]
  ELSE categorize_next(two_best_children(S, current, inst), inst)

categorize_next(tb, inst) == cobweb_categorize(tb.mem, tb.best1[2], inst)

\* The code points of an operation name: Python compares str by code point.
ord(name) ==
  CASE name = "best" -> <<98, 101, 115, 116>>
    [] name = "new" -> <<110, 101, 119>>
    [] name = "merge" -> <<109, 101, 114, 103, 101>>
    [] name = "split" -> <<115, 112, 108, 105, 116>>

RECURSIVE StrLess(_, _)
StrLess(s, t) ==
  IF t = <<>> THEN FALSE
  ELSE IF s = <<>> THEN TRUE
  ELSE IF Head(s) # Head(t) THEN Head(s) < Head(t)
  ELSE StrLess(Tail(s), Tail(t))

\* Comparison of the utilities alone, as two_best_children makes it.
TupleLess_by_utility(x, y) == RLess(x[1], y[1])

\* Tuple comparison of (utility, name).
TupleLess(x, y) ==
  RLess(x[1], y[1]) \/ (REq(x[1], y[1]) /\ StrLess(ord(x[2]), ord(y[2])))

\* operations.sort(reverse=True) on (utility, name) tuples.
SortTuplesDesc(s) ==
  LET rank(i) ==
        1 + Cardinality({j \in 1..Len(s) : TupleLess(s[i], s[j])})
          + Cardinality({j \in 1..(i - 1) :
                           ~TupleLess(s[i], s[j]) /\ ~TupleLess(s[j], s[i])})
  IN  [k \in 1..Len(s) |-> s[CHOOSE i \in 1..Len(s) : rank(i) = k]] \o <<>> \o <<>>

\* operations.sort(reverse=True); return operations[0]
best_operation(ops) == SortTuplesDesc(ops)[1]

\* operations.append((r.cu, name)) for the result r of an evaluator.
add_operation(o, r, name) ==
  [mem |-> r.mem, operations |-> Append(o.operations, <<r.cu, name>>)]

\* Line 433.
add_best(o, best1) ==
  [o EXCEPT !.operations = Append(@, <<best1[1], "best">>)]

\* Line 435.
add_new(o, self, inst) ==
  add_operation(o, cu_for_new_child(o.mem, self, inst), "new")

\* Lines 436-437.
add_merge(o, self, inst, best1, best2) ==
  IF Len(o.mem.heap[self].children) > 2 /\ best2 # NoPair
  THEN add_operation(o, cu_for_merge(o.mem, self, best1[2], best2[2], inst),
                     "merge")
  ELSE o

\* Lines 438-439 without the test of len(best1.children).
add_split_without_test(o, self, best1) ==
  add_operation(o, cu_for_split(o.mem, self, best1[2]), "split")

\* Lines 438-439.
add_split(o, self, best1) ==
  IF Len(o.mem.heap[best1[2]].children) > 0
  THEN add_operation(o, cu_for_split(o.mem, self, best1[2]), "split")
  ELSE o

\* The candidate list of get_best_operation, in construction order, with
\* the memory the evaluators leave.
operations(S, self, inst, best1, best2) ==
  add_split(
    add_merge(
      add_new(add_best([mem |-> S, operations |-> <<>>], best1), self, inst),
      self, inst, best1, best2),
    self, best1)

\* Lines 442-445 on the candidates o.
chosen(o) ==
  [mem |-> o.mem, operations |-> o.operations,
   action |-> best_operation(o.operations)]

\* self.get_best_operation(instance, best1, best2)
get_best_operation(S, self, inst, best1, best2) ==
  chosen(operations(S, self, inst, best1, best2))

\* ------------------------------------------------------------- state
VARIABLES
  heap,      \* the Cobweb objects, by reference
  counter,   \* Cobweb.counter
  issued,    \* the symbols gensym returned during the last step
  min_cu,    \* Cobweb.min_cu
  pc,        \* "idle", or "cobweb" inside the loop of cobweb()
  current,   \* the loop's current node
  instance,  \* the instance being fitted
  ret,       \* the node the last completed ifit returned
  hist,      \* the instances given to ifit so far
  calls,     \* calls made from outside since the tree was built, ifit apart
  last,      \* what the last loop iteration did
  returned,  \* the nodes the completed ifit calls returned, one per instance
  gen        \* the frame of cluster_iter and of the caller consuming it

vars == <<heap, counter, issued, min_cu, pc, current, instance, ret, hist,
          calls, last, returned, gen>>

\* The tree is the first object constructed.
Root == 1

NoStep == [op |-> "none", node |-> None, cu |-> Zero, best_action |-> "none",
           ops |-> <<>>, best1 |-> None, best2 |-> None]

\* No cluster_iter call has been made.
NoGen == [k |-> 0, n |-> 0, mod |-> FALSE, minsplit |-> 0, maxsplit |-> 0, nth_split |-> 0,
          temp_clusters |-> <<>>, clustering |-> <<>>, yields |-> <<>>,
          split |-> <<>>]

\* The step leaves the memory S.
Commit(S) ==
  /\ heap' = S.heap
  /\ counter' = S.counter
  /\ issued' = S.issued

\* The memory at the beginning of a step.
Now == Mem(heap, counter, <<>>)

\* Cobweb(): an empty tree.
Init ==
  /\ heap = new(Mem(<<>>, 0, <<>>)).heap
  /\ counter = new(Mem(<<>>, 0, <<>>)).counter
  /\ issued = new(Mem(<<>>, 0, <<>>)).issued
  /\ min_cu \in MinCuChoices
  /\ pc = "idle"
  /\ current = None
  /\ instance = NoInstance
  /\ ret = None
  /\ hist = <<>>
  /\ calls = 0
  /\ last = NoStep
  /\ returned = <<>>
  /\ gen = NoGen

\* ------------------------------------------------------------- ifit
\* ifit(inst) enters cobweb() with current = self.
IfitCall(inst) ==
  /\ pc = "idle"
  /\ Len(hist) < MaxInstances
  /\ pc' = "cobweb"
  /\ current' = Root
  /\ instance' = inst
  /\ hist' = Append(hist, inst)
  /\ ret' = None
  /\ last' = NoStep
  /\ issued' = <<>>
  /\ UNCHANGED <<heap, counter, min_cu, calls, returned, gen>>

AtLeaf == pc = "cobweb" /\ Len(heap[current].children) = 0
AtInner == pc = "cobweb" /\ Len(heap[current].children) > 0

\* Lines 394-396: what the iteration has in hand once two_best_children
\* returned tb and get_best_operation returned g; the nodes the evaluators
\* constructed, those after the first n, are collected.
decided(tb, g, n) ==
  [mem |-> Collect(g.mem, n),
   best1 |-> tb.best1[2],
   best2 |-> IF tb.best2 = NoPair THEN None ELSE tb.best2[2],
   ops |-> g.operations,
   action_cu |-> g.action[1],
   best_action |-> g.action[2]]

\* Lines 390-392.
decide(tb, self, inst, n) ==
  decided(tb, get_best_operation(tb.mem, self, inst, tb.best1, tb.best2), n)

\* Lines 389-396 at an inner node.
Decision(S, self, inst) ==
  decide(two_best_children(S, self, inst), self, inst, Len(S.heap))

\* The result r of an evaluator, the nodes it constructed collected.
collected(r, n) == [mem |-> Collect(r.mem, n), cu |-> r.cu]

\* Line 366 at a leaf: the utility of a fringe split.
FringeDecision(S, self, inst) ==
  collected(cu_for_fringe_split(S, self, inst), Len(S.heap))

Decisions == {Decision(Now, current, instance)}
FringeDecisions == {FringeDecision(Now, current, instance)}

Step(op, d) ==
  [op |-> op, node |-> current, cu |-> d.action_cu,
   best_action |-> d.best_action, ops |-> d.ops,
   best1 |-> d.best1, best2 |-> d.best2]

LeafStep(op, d) ==
  [op |-> op, node |-> current, cu |-> d.cu, best_action |-> "none",
   ops |-> <<>>, best1 |-> None, best2 |-> None]

Return(node) ==
  /\ ret' = node
  /\ returned' = Append(returned, node)
  /\ pc' = "idle"
  /\ current' = None
  /\ instance' = NoInstance
  /\ UNCHANGED <<min_cu, hist, calls, gen>>

Continue(node) ==
  /\ current' = node
  /\ UNCHANGED <<pc, instance, ret, min_cu, hist, calls, returned, gen>>

\* Lines 366-369 with line 368 left out.
LeafAbsorb_without_increment ==
  /\ AtLeaf
  /\ \E d \in FringeDecisions :
       /\ RLeq(d.cu, min_cu)
       /\ Commit(d.mem)
       /\ last' = LeafStep("absorb", d)
       /\ Return(current)

\* Lines 366-369: a leaf that a fringe split would not improve.
LeafAbsorb ==
  /\ AtLeaf
  /\ \E d \in FringeDecisions :
       /\ RLeq(d.cu, min_cu)
       /\ Commit(inc(d.mem, current, instance))
       /\ last' = LeafStep("absorb", d)
       /\ Return(current)

\* The fringe split with line 384 left out.
FringeSplit_without_increment ==
  /\ AtLeaf
  /\ \E d \in FringeDecisions :
       /\ ~RLeq(d.cu, min_cu)
       /\ LET S1 == create_child_with_current_counts(d.mem, current)
          IN  /\ Commit(create_new_child(S1, current, instance))
              /\ last' = LeafStep("fringe", d)
              /\ Return(NewRef(S1))

\* Lines 371-385: the fringe split.  No value of an instance is a node, so
\* the loop of lines 380-382 changes nothing.
FringeSplit ==
  /\ AtLeaf
  /\ \E d \in FringeDecisions :
       /\ ~RLeq(d.cu, min_cu)
       /\ LET S1 == inc(create_child_with_current_counts(d.mem, current),
                        current, instance)
          IN  /\ Commit(create_new_child(S1, current, instance))
              /\ last' = LeafStep("fringe", d)
              /\ Return(NewRef(S1))

\* The branch of lines 398-404 with line 403 left out.
Prune_keeping_children ==
  /\ AtInner
  /\ \E d \in Decisions :
       /\ RLeq(d.action_cu, min_cu)
       /\ Commit(inc(d.mem, current, instance))
       /\ last' = Step("prune", d)
       /\ Return(current)

\* Lines 398-404: the best operation is not worth min_cu.
Prune ==
  /\ AtInner
  /\ \E d \in Decisions :
       /\ RLeq(d.action_cu, min_cu)
       /\ Commit([inc(d.mem, current, instance)
                    EXCEPT !.heap[current].children = <<>>])
       /\ last' = Step("prune", d)
       /\ Return(current)

\* Lines 406-408 taken without the test of line 398 before them.
Best_without_threshold ==
  /\ AtInner
  /\ \E d \in Decisions :
       /\ d.best_action = "best"
       /\ Commit(inc(d.mem, current, instance))
       /\ last' = Step("best", d)
       /\ Continue(d.best1)

\* Lines 406-408.
Best ==
  /\ AtInner
  /\ \E d \in Decisions :
       /\ ~RLeq(d.action_cu, min_cu)
       /\ d.best_action = "best"
       /\ Commit(inc(d.mem, current, instance))
       /\ last' = Step("best", d)
       /\ Continue(d.best1)

\* Lines 409-411.
New ==
  /\ AtInner
  /\ \E d \in Decisions :
       /\ ~RLeq(d.action_cu, min_cu)
       /\ d.best_action = "new"
       /\ LET S1 == inc(d.mem, current, instance)
          IN  /\ Commit(create_new_child(S1, current, instance))
              /\ last' = Step("new", d)
              /\ Return(NewRef(S1))

\* Lines 412-415 with line 413 left out.
Merge_without_increment ==
  /\ AtInner
  /\ \E d \in Decisions :
       /\ ~RLeq(d.action_cu, min_cu)
       /\ d.best_action = "merge"
       /\ Commit(merge(d.mem, current, d.best1, d.best2))
       /\ last' = Step("merge", d)
       /\ Continue(NewRef(d.mem))

\* Lines 412-415.
Merge ==
  /\ AtInner
  /\ \E d \in Decisions :
       /\ ~RLeq(d.action_cu, min_cu)
       /\ d.best_action = "merge"
       /\ LET S1 == inc(d.mem, current, instance)
          IN  /\ Commit(merge(S1, current, d.best1, d.best2))
              /\ last' = Step("merge", d)
              /\ Continue(NewRef(S1))

\* The 'split' branch with line 417 left out: the tree stays as it is.
Split_without_split ==
  /\ AtInner
  /\ \E d \in Decisions :
       /\ ~RLeq(d.action_cu, min_cu)
       /\ d.best_action = "split"
       /\ Commit(d.mem)
       /\ last' = Step("split", d)
       /\ Continue(current)

\* The 'split' branch incrementing current as the branches before it do.
Split_with_increment ==
  /\ AtInner
  /\ \E d \in Decisions :
       /\ ~RLeq(d.action_cu, min_cu)
       /\ d.best_action = "split"
       /\ Commit(split(inc(d.mem, current, instance), current, d.best1))
       /\ last' = Step("split", d)
       /\ Continue(current)

\* Lines 416-417.
Split ==
  /\ AtInner
  /\ \E d \in Decisions :
       /\ ~RLeq(d.action_cu, min_cu)
       /\ d.best_action = "split"
       /\ Commit(split(d.mem, current, d.best1))
       /\ last' = Step("split", d)
       /\ Continue(current)

\* root.split(c) called from outside on a child c that has children, as
\* cluster_iter does.
RootSplit(c) ==
  /\ pc = "idle"
  /\ calls < MaxSplits
  /\ \E i \in 1..Len(heap[Root].children) : heap[Root].children[i] = c
  /\ Len(heap[c].children) > 0
  /\ Commit(split(Now, Root, c))
  /\ calls' = calls + 1
  /\ last' = NoStep
  /\ UNCHANGED <<min_cu, pc, current, instance, ret, hist, returned, gen>>

Ifit ==
  \/ \E inst \in Instances : IfitCall(inst)
  \/ LeafAbsorb
  \/ FringeSplit
  \/ Prune
  \/ Best
  \/ New
  \/ Merge
  \/ Split

Next ==
  \/ Ifit
  \/ \E c \in 1..Len(heap) : RootSplit(c)

Spec == Init /\ [][Next]_vars

\* ------------------------------------------------------------- categorize
\* ifit calls that build a tree before it is queried
MaxBuild == 4
\* cobweb_categorize calls made on one tree
MaxCategorize == 2

\* ifit(inst) on a tree that has not been queried yet.
BuildCall(inst) ==
  /\ calls = 0
  /\ Len(hist) < MaxBuild
  /\ IfitCall(inst)

\* The result r of cobweb_categorize, the nodes the evaluators constructed
\* collected.
categorized(r, n) == [mem |-> Collect(r.mem, n), leaf |-> r.leaf]

Categorizations(inst) ==
  {categorized(cobweb_categorize(Now, Root, inst), Len(heap))}

\* root.cobweb_categorize(inst), called between two ifit calls.
Categorize(inst) ==
  /\ pc = "idle"
  /\ calls < MaxCategorize
  /\ \E r \in Categorizations(inst) :
       /\ Commit(r.mem)
       /\ last' = [op |-> "categorize", instance |-> inst, leaf |-> r.leaf,
                   repeated |-> last.op = "categorize" /\ last.instance = inst]
  /\ calls' = calls + 1
  /\ UNCHANGED <<min_cu, pc, current, instance, ret, hist, returned, gen>>

NextCat ==
  \/ \E inst \in Instances : BuildCall(inst)
  \/ LeafAbsorb
  \/ FringeSplit
  \/ Prune
  \/ Best
  \/ New
  \/ Merge
  \/ Split
  \/ \E inst \in Instances : Categorize(inst)

SpecCat == Init /\ [][NextCat]_vars

\* ------------------------------------------------------------- merge, split
\* merge-then-split round trips made on one tree
MaxRoundTrips == 1

\* The nodes of the tree under r: r and the nodes below it.
RECURSIVE Nodes(_, _)
Nodes(h, r) ==
  {r} \cup UNION {Nodes(h, h[r].children[i]) : i \in 1..Len(h[r].children)}

\* The children of the object r of heap h, as a set.
ChildSet(h, r) == {h[r].children[i] : i \in 1..Len(h[r].children)}

\* m = p.merge(a, b) for two distinct children a, b of a node p of the tree.
MergeCall(p, a, b) ==
  /\ pc = "idle"
  /\ calls < MaxRoundTrips
  /\ p \in Nodes(heap, Root)
  /\ a \in ChildSet(heap, p)
  /\ b \in ChildSet(heap, p)
  /\ a # b
  /\ Commit(merge(Now, p, a, b))
  /\ pc' = "merged"
  /\ last' = [op |-> "merge_call", p |-> p, a |-> a, b |-> b, m |-> NewRef(Now),
              before |-> heap]
  /\ UNCHANGED <<min_cu, current, instance, ret, hist, calls, returned, gen>>

\* p.split(m), immediately after m = p.merge(a, b).
SplitCall ==
  /\ pc = "merged"
  /\ Commit(split(Now, last.p, last.m))
  /\ pc' = "idle"
  /\ last' = [last EXCEPT !.op = "split_call"]
  /\ calls' = calls + 1
  /\ UNCHANGED <<min_cu, current, instance, ret, hist, returned, gen>>

NextRoundTrip ==
  \/ \E inst \in Instances : BuildCall(inst)
  \/ LeafAbsorb
  \/ FringeSplit
  \/ Prune
  \/ Best
  \/ New
  \/ Merge
  \/ Split
  \/ \E p, a, b \in 1..Len(heap) : MergeCall(p, a, b)
  \/ SplitCall

SpecRoundTrip == Init /\ [][NextRoundTrip]_vars

\* ------------------------------------------------------------- three children
\* the counts of the two values in the distribution the children share
MaxBase == 2
\* how many times the shared distribution each child holds
MaxMult == 2
\* cu_for_merge calls made on one root
MaxEvals == 1

\* A node holding k times the counts r of red and b of blue for the one
\* attribute color, with the parent Root.
ColorNode(sym, k, r, b) ==
  [NewNode(str(sym)) EXCEPT
     !.count = k * (r + b),
     !.av_counts = [p \in Pairs |->
        IF p = <<"color", "red">> THEN k * r
        ELSE IF p = <<"color", "blue">> THEN k * b ELSE 0],
     !.parent = Root]

\* A root and three children of one distribution; the root's counts are
\* the sums of its children's.
ThreeHeap(r, b, k) ==
  <<[ColorNode(1, k[1] + k[2] + k[3], r, b) EXCEPT
       !.children = <<2, 3, 4>>, !.parent = None],
    ColorNode(2, k[1], r, b),
    ColorNode(3, k[2], r, b),
    ColorNode(4, k[3], r, b)>>

InitThree ==
  /\ \E r, b \in 0..MaxBase :
       /\ r + b > 0
       /\ \E k \in (1..MaxMult) \X (1..MaxMult) \X (1..MaxMult) :
            heap = ThreeHeap(r, b, k)
  /\ counter = 4
  /\ issued = <<>>
  /\ min_cu = MinCuDefault
  /\ pc = "idle"
  /\ current = None
  /\ instance = NoInstance
  /\ ret = None
  /\ hist = <<>>
  /\ calls = 0
  /\ last = NoStep
  /\ returned = <<>>
  /\ gen = NoGen

MergeEvaluations(best1, best2, inst) ==
  {collected(cu_for_merge(Now, Root, best1, best2, inst), Len(heap))}

\* root.cu_for_merge(best1, best2, inst) for two of the children, with
\* root.category_utility() taken before it.
MergeEval(best1, best2, inst) ==
  /\ pc = "idle"
  /\ calls < MaxEvals
  /\ best1 \in ChildSet(heap, Root)
  /\ best2 \in ChildSet(heap, Root)
  /\ best1 # best2
  /\ \E d \in MergeEvaluations(best1, best2, inst) :
       /\ Commit(d.mem)
       /\ last' = [op |-> "cu_for_merge", best1 |-> best1, best2 |-> best2,
                   instance |-> inst, cu |-> d.cu,
                   separate |-> category_utility(heap, Root)]
  /\ calls' = calls + 1
  /\ UNCHANGED <<min_cu, pc, current, instance, ret, hist, returned, gen>>

NextThree ==
  \E best1, best2 \in 1..Len(heap) :
    \E inst \in Instances : MergeEval(best1, best2, inst)

SpecThree == InitThree /\ [][NextThree]_vars

\* ------------------------------------------------------------- direct calls
\* calls of two_best_children and of the evaluators made on one tree, a
\* repetition of the last call apart
MaxDirect == 1

\* A call may be made: fewer than MaxDirect were, or it repeats the last.
MayCall(op, node, inst) ==
  \/ calls < MaxDirect
  \/ /\ calls = MaxDirect
     /\ last.op = op
     /\ last.node = node
     /\ last.instance = inst

\* What node.two_best_children(inst) leaves and gives, its temporaries
\* collected.
TwoBest(node, inst) ==
  {two_best_children(Now, node, inst)}

\* node.two_best_children(inst) on a node of the tree.
TwoBestCall(node, inst) ==
  /\ pc = "idle"
  /\ node \in Nodes(heap, Root)
  /\ MayCall("two_best_children", node, inst)
  /\ \E r \in TwoBest(node, inst) :
       /\ Commit(Collect(r.mem, Len(heap)))
       /\ last' = [op |-> "two_best_children", node |-> node,
                   instance |-> inst, raised |-> r.raised,
                   best1 |-> IF r.raised = NoException THEN r.best1 ELSE NoPair,
                   best2 |-> IF r.raised = NoException THEN r.best2 ELSE NoPair,
                   repeated |-> calls = MaxDirect]
  /\ calls' = calls + 1
  /\ UNCHANGED <<min_cu, pc, current, instance, ret, hist, returned, gen>>

\* The methods that evaluate an operation without applying it.
Evaluators ==
  {"cu_for_insert", "cu_for_new_child", "cu_for_merge", "cu_for_split",
   "cu_for_fringe_split"}

\* The arguments op takes: a and b are children of node where op takes a
\* child, and None where it takes none.
EvalArgs(op, node, a, b) ==
  CASE op = "cu_for_insert" -> a \in ChildSet(heap, node) /\ b = None
    [] op = "cu_for_new_child" -> a = None /\ b = None
    [] op = "cu_for_merge" ->
         a \in ChildSet(heap, node) /\ b \in ChildSet(heap, node) /\ a # b
    [] op = "cu_for_split" -> a \in ChildSet(heap, node) /\ b = None
    [] op = "cu_for_fringe_split" -> a = None /\ b = None

\* What node.op(...) leaves and gives.
Evaluation(op, node, a, b, inst) ==
  {CASE op = "cu_for_insert" -> cu_for_insert(Now, node, a, inst)
     [] op = "cu_for_new_child" -> cu_for_new_child(Now, node, inst)
     [] op = "cu_for_merge" -> cu_for_merge(Now, node, a, b, inst)
     [] op = "cu_for_split" -> cu_for_split(Now, node, a)
     [] op = "cu_for_fringe_split" -> cu_for_fringe_split(Now, node, inst)}

\* One of the evaluators called on a node of the tree, with children of
\* the node for the children it takes; the objects it constructed are
\* unreachable once it has returned.
EvalCall(op, node, inst) ==
  /\ pc = "idle"
  /\ calls < MaxDirect
  /\ node \in Nodes(heap, Root)
  /\ \E a, b \in ChildSet(heap, node) \cup {None} :
       /\ EvalArgs(op, node, a, b)
       /\ \E r \in Evaluation(op, node, a, b, inst) :
            /\ Commit(Collect(r.mem, Len(heap)))
            /\ last' = [op |-> op, node |-> node, instance |-> inst,
                        best1 |-> a, best2 |-> b, cu |-> r.cu,
                        constructed |-> Len(r.mem.heap) - Len(heap)]
  /\ calls' = calls + 1
  /\ UNCHANGED <<min_cu, pc, current, instance, ret, hist, returned, gen>>

NextDirect ==
  \/ \E inst \in Instances : BuildCall(inst)
  \/ LeafAbsorb
  \/ FringeSplit
  \/ Prune
  \/ Best
  \/ New
  \/ Merge
  \/ Split
  \/ \E node \in 1..(2 * MaxBuild), inst \in Instances : TwoBestCall(node, inst)
  \/ \E op \in Evaluators, node \in 1..(2 * MaxBuild), inst \in Instances :
       EvalCall(op, node, inst)

SpecDirect == Init /\ [][NextDirect]_vars

\* ------------------------------------------------------------- cluster
\* cluster_iter or k_cluster calls made on one tree
MaxClusterCalls == 1
\* the greatest minsplit and maxsplit given to cluster_iter
MaxSplitArg == 2
\* the greatest k given to k_cluster
MaxK == 3

\* The defaults of cluster_iter, which k_cluster leaves in place.
DefaultMinSplit == 1
DefaultMaxSplit == 100000

\* tree.root: the node the tree object holds.
tree_root == Root

\* "Concept" + c.concept_id: the label of the node c.
cluster_label(h, c) == <<"Concept">> \o Tail(h[c].concept_name)

\* Lines 54-55: the ancestor of c below the root, or c when there is none.
RECURSIVE cluster_of(_, _)
cluster_of(h, c) ==
  IF h[c].parent # None /\ h[h[c].parent].parent # None
  THEN cluster_of(h, h[c].parent)
  ELSE c

\* Lines 52-56: the labels of temp_clusters.
clusters(h, temp_clusters) ==
  [i \in 1..Len(temp_clusters) |->
     cluster_label(h, cluster_of(h, temp_clusters[i]))] \o <<>>

\* [tree.categorize(instance) for instance in instances], after the leaves
\* `acc`; categorize_all_next takes the result r for the first instance.
RECURSIVE categorize_all(_, _, _)
RECURSIVE categorize_all_next(_, _, _)
categorize_all(S, insts, acc) ==
  IF insts = <<>> THEN [mem |-> S, leaves |-> acc]
  ELSE categorize_all_next(cobweb_categorize(S, tree_root, Head(insts)),
                           insts, acc)

categorize_all_next(r, insts, acc) ==
  categorize_all(r.mem, Tail(insts), Append(acc, r.leaf))

\* Lines 59-61: the list of (cu_for_split(c) - category_utility(), i, c)
\* over the children c of the root that have children, from the i-th child
\* on; split_cus_next takes the result r of cu_for_split for the i-th.
RECURSIVE split_cus(_, _, _)
RECURSIVE split_cus_next(_, _, _, _)
split_cus(S, i, acc) ==
  IF i > Len(S.heap[tree_root].children) THEN [mem |-> S, list |-> acc]
  ELSE IF S.heap[S.heap[tree_root].children[i]].children = <<>>
  THEN split_cus(S, i + 1, acc)
  ELSE split_cus_next(
         cu_for_split(S, tree_root, S.heap[tree_root].children[i]),
         S.heap[tree_root].children[i], i, acc)

split_cus_next(r, c, i, acc) ==
  split_cus(r.mem, i + 1,
            Append(acc, <<RSub(r.cu, category_utility(r.mem.heap, tree_root)),
                          i - 1, c>>))

\* The order sorted() puts two entries of split_cus in: by the utility,
\* then by the index.
SplitCuLess(x, y) ==
  RLess(x[1], y[1]) \/ (REq(x[1], y[1]) /\ x[2] < y[2])

\* split_cus[-1] of the sorted list.
last_split_cu(list) ==
  CHOOSE x \in {list[i] : i \in 1..Len(list)} :
    \A j \in 1..Len(list) : ~SplitCuLess(x, list[j])

\* The instances a cluster call is given: the last n fitted.
Given(n) == SubSeq(hist, Len(hist) - n + 1, Len(hist))

\* Lines 44-47: temp_clusters, with the memory the calls leave.  With
\* mod the n instances were fitted by the call, which has what ifit
\* returned for each; without it each is categorized.
TempClusters(mod, n) ==
  {IF mod
   THEN [mem |-> Now,
         leaves |-> SubSeq(returned, Len(returned) - n + 1, Len(returned))]
   ELSE categorize_all(Now, Given(n), <<>>)}

\* cluster_iter(tree, instances, minsplit, maxsplit, mod) up to the loop,
\* called by k_cluster with k >= 2 (line 119, with the initial clustering
\* of line 118) or by cluster (k = 0).
ClusterCall(mod, n, k, minsplit, maxsplit) ==
  /\ pc = "idle"
  /\ calls < MaxClusterCalls
  /\ n \in 0..Len(hist)
  /\ minsplit >= 1
  /\ minsplit <= maxsplit
  /\ \E t \in TempClusters(mod, n) :
       /\ Commit(Collect(t.mem, Len(heap)))
       /\ gen' = [k |-> k, n |-> n, mod |-> mod, minsplit |-> minsplit,
                  maxsplit |-> maxsplit, nth_split |-> 1,
                  temp_clusters |-> t.leaves,
                  clustering |-> [i \in 1..n |->
                                    cluster_label(heap, tree_root)],
                  yields |-> <<>>, split |-> <<>>]
  /\ pc' = "iter"
  /\ calls' = calls + 1
  /\ last' = NoStep
  /\ UNCHANGED <<min_cu, current, instance, ret, hist, returned>>

\* The labels of a clustering, as a set.
LabelSet(c) == {c[i] : i \in 1..Len(c)}

ClusterYield_without_break ==
  /\ pc = "iter"
  /\ gen.nth_split >= gen.minsplit
  /\ pc' = "split"
  /\ gen' = [gen EXCEPT !.yields = Append(@, clusters(heap, gen.temp_clusters)),
                        !.clustering = clusters(heap, gen.temp_clusters)]
  /\ last' = NoStep
  /\ issued' = <<>>
  /\ UNCHANGED <<heap, counter, min_cu, current, instance, ret, hist, calls,
                 returned>>

\* Lines 51-57, and the caller taking what is yielded: k_cluster stops at
\* a clustering of more than k labels and keeps the one before it (lines
\* 120-122); cluster collects them all.
ClusterYield ==
  /\ pc = "iter"
  /\ gen.nth_split >= gen.minsplit
  /\ LET c == clusters(heap, gen.temp_clusters)
     IN  IF gen.k > 0 /\ Cardinality(LabelSet(c)) > gen.k
         THEN /\ pc' = "idle"
              /\ gen' = [gen EXCEPT !.yields = Append(@, c)]
         ELSE /\ pc' = "split"
              /\ gen' = [gen EXCEPT !.yields = Append(@, c),
                                    !.clustering = c]
  /\ last' = NoStep
  /\ issued' = <<>>
  /\ UNCHANGED <<heap, counter, min_cu, current, instance, ret, hist, calls,
                 returned>>

SplitCus_of_all_children ==
  {[mem |-> Now,
    list |-> [i \in 1..Len(heap[tree_root].children) |->
                <<Zero, i - 1, heap[tree_root].children[i]>>] \o <<>>]}

SplitCus == {split_cus(Now, 1, <<>>)}

\* Lines 59-71: the rest of the iteration; the loop ends when no child of
\* the root has children or when maxsplit iterations have been made.
ClusterSplit ==
  /\ \/ pc = "split"
     \/ pc = "iter" /\ gen.nth_split < gen.minsplit
  /\ \E r \in SplitCus :
       IF r.list = <<>>
       THEN /\ Commit(Collect(r.mem, Len(heap)))
            /\ pc' = "idle"
            /\ gen' = gen
       ELSE /\ Commit(Collect(split(r.mem, tree_root,
                                    last_split_cu(r.list)[3]), Len(heap)))
            /\ pc' = IF gen.nth_split + 1 > gen.maxsplit
                     THEN "idle" ELSE "iter"
            /\ gen' = [gen EXCEPT !.nth_split = @ + 1,
                                  !.split = Append(@, last_split_cu(r.list)[3])]
  /\ last' = NoStep
  /\ UNCHANGED <<min_cu, current, instance, ret, hist, calls, returned>>

NextCluster ==
  \/ \E inst \in Instances : BuildCall(inst)
  \/ LeafAbsorb
  \/ FringeSplit
  \/ Prune
  \/ Best
  \/ New
  \/ Merge
  \/ Split
  \/ \E mod \in BOOLEAN, n \in 0..MaxBuild, k \in 2..MaxK :
       ClusterCall(mod, n, k, DefaultMinSplit, DefaultMaxSplit)
  \/ \E mod \in BOOLEAN, n \in 0..MaxBuild, minsplit, maxsplit \in 1..MaxSplitArg :
       ClusterCall(mod, n, 0, minsplit, maxsplit)
  \/ ClusterYield
  \/ ClusterSplit

SpecCluster == Init /\ [][NextCluster]_vars

\* ------------------------------------------------------------- properties
RECURSIVE Sum(_)
Sum(s) == IF s = <<>> THEN 0 ELSE Head(s) + Sum(Tail(s))

\* The counts of r are the sums of the counts of its children.
Conserved(h, r) ==
  LET kids == Kids(h, r)
  IN  /\ h[r].count = Sum([i \in 1..Len(kids) |-> kids[i].count])
      /\ \A p \in Pairs :
           h[r].av_counts[p] =
             Sum([i \in 1..Len(kids) |-> kids[i].av_counts[p]])

\* C1: between two ifit calls, with the default min_cu, the count and every
\* attribute-value count of a node of the tree that has children are the
\* sums of those of its children.
C1_CountConservation ==
  (pc = "idle" /\ min_cu = MinCuDefault) =>
    \A r \in Nodes(heap, Root) :
      heap[r].children # <<>> => Conserved(heap, r)

C1_Witness ==
  /\ pc = "idle"
  /\ min_cu = MinCuDefault
  /\ Len(hist) = MaxInstances
  /\ \E r \in Nodes(heap, Root) : r # Root /\ Len(heap[r].children) >= 2

\* C2: when ifit has just returned, by the leaf absorb, the fringe split,
\* 'new' or the min_cu branch, the node it returned has no children.
C2_ReturnedNodeIsLeaf ==
  (pc = "idle" /\ last.op \in {"absorb", "fringe", "new", "prune"}) =>
    (ret # None /\ heap[ret].children = <<>>)

C2_Witness ==
  /\ pc = "idle"
  /\ last.op = "prune"
  /\ ret = last.node
  /\ heap[ret].count >= 3

\* C3: a cobweb_categorize call leaves every node's count, attribute-value
\* counts, children and parent as they were, and a call that repeats the
\* instance of the call before it returns the same leaf.
C3_CategorizeReadOnly ==
  [][last'.op = "categorize" =>
       /\ heap' = heap
       /\ last'.repeated => last'.leaf = last.leaf]_vars

C3_Witness ==
  /\ last.op = "categorize"
  /\ last.repeated
  /\ last.leaf # Root
  /\ heap[heap[last.leaf].parent].parent # None

\* C4: after m = p.merge(a, b) and then p.split(m), p has the set of
\* children it had, a and b have the counts they had, and their parent is p.
C4_MergeSplitRoundTrip ==
  last.op = "split_call" =>
    /\ ChildSet(heap, last.p) = ChildSet(last.before, last.p)
    /\ Len(heap[last.p].children) = Len(last.before[last.p].children)
    /\ \A x \in {last.a, last.b} :
         /\ heap[x].count = last.before[x].count
         /\ heap[x].av_counts = last.before[x].av_counts
         /\ heap[x].parent = last.p

C4_Witness ==
  /\ last.op = "split_call"
  /\ last.p # Root
  /\ heap[last.p].children # last.before[last.p].children

\* The priority the operations are built in: best, new, merge, split.
ConstructionRank(name) ==
  CASE name = "best" -> 1 [] name = "new" -> 2
    [] name = "merge" -> 3 [] name = "split" -> 4

\* The names from the greatest to the least: split, new, merge, best.
NameRank(name) ==
  CASE name = "split" -> 1 [] name = "new" -> 2
    [] name = "merge" -> 3 [] name = "best" -> 4

\* The candidates of the last decision whose utility is the greatest.
Greatest(ops) ==
  {i \in 1..Len(ops) : \A j \in 1..Len(ops) : RLeq(ops[j][1], ops[i][1])}

\* C5 as stated: get_best_operation returns a candidate of the greatest
\* utility, and among several of them the first of best, new, merge, split.
C5_TieByConstructionOrder ==
  last.ops # <<>> =>
    \E i \in Greatest(last.ops) :
      /\ last.ops[i] = <<last.cu, last.best_action>>
      /\ \A j \in Greatest(last.ops) :
           ConstructionRank(last.best_action) <= ConstructionRank(last.ops[j][2])

\* C5: get_best_operation returns a candidate of the greatest utility, and
\* among several of them the one whose name is the greatest, that is the
\* first of split, new, merge, best.
C5_TieByName ==
  last.ops # <<>> =>
    \E i \in Greatest(last.ops) :
      /\ last.ops[i] = <<last.cu, last.best_action>>
      /\ \A j \in Greatest(last.ops) :
           NameRank(last.best_action) <= NameRank(last.ops[j][2])

C5_Witness ==
  /\ last.ops # <<>>
  /\ last.best_action = "new"
  /\ \E j \in Greatest(last.ops) : last.ops[j][2] = "best"

\* C6: at a node with children, when the winning utility is at most min_cu
\* the node takes the instance, loses its children and is returned, and
\* nothing else changes; and an iteration that applies best, new, merge or
\* split had a winning utility above min_cu.
C6_Threshold ==
  [][AtInner =>
       \A d \in Decisions :
         /\ RLeq(d.action_cu, min_cu) =>
              /\ heap' = [heap EXCEPT ![current] =
                            [increment_counts(@, instance) EXCEPT
                               !.children = <<>>]]
              /\ pc' = "idle"
              /\ ret' = current
         /\ last'.op \in {"best", "new", "merge", "split"} =>
              RLess(min_cu, d.action_cu)]_vars

C6_Witness ==
  /\ last.op = "prune"
  /\ RLeq(last.cu, min_cu)
  /\ Len(last.ops) >= 2
  /\ heap[last.node].children = <<>>

Red == [color |-> "red"]
Blue == [color |-> "blue"]

\* C7: an empty tree given red, red and blue has a root of count 3 with
\* at least two children, where the probability of color = red is 2/3.
C7_RedRedBlue ==
  (pc = "idle" /\ calls = 0 /\ min_cu = MinCuDefault
     /\ hist = <<Red, Red, Blue>>) =>
    /\ heap[Root].count = 3
    /\ Len(heap[Root].children) >= 2
    /\ get_probability(heap[Root], "color", "red") = <<2, 3>>

C7_Witness ==
  /\ pc = "idle"
  /\ calls = 0
  /\ min_cu = MinCuDefault
  /\ hist = <<Red, Red, Blue>>
  /\ last.op = "fringe"

\* C8: with the default min_cu, no node of the tree has exactly one child,
\* whether ifit or root.split made the tree.
C8_NoOnlyChild ==
  min_cu = MinCuDefault =>
    \A r \in Nodes(heap, Root) : Len(heap[r].children) # 1

C8_Witness ==
  /\ min_cu = MinCuDefault
  /\ pc = "idle"
  /\ calls = 1
  /\ Len(hist) = MaxInstances
  /\ \E r \in Nodes(heap, Root) : r # Root /\ Len(heap[r].children) >= 2

\* int(sym): the number a string of decimal digits stands for.
RECURSIVE int(_)
int(sym) ==
  IF sym = <<>> THEN 0
  ELSE 10 * int(SubSeq(sym, 1, Len(sym) - 1)) + sym[Len(sym)]

\* C9: no two nodes have the same concept name and no name is above the
\* counter; and the ids a step gives out, to the nodes of the tree, to the
\* copies and to the nodes of the evaluators, are each above the ids given
\* before it.
C9_UniqueIncreasingIds ==
  /\ [](\A i, j \in 1..Len(heap) :
          /\ heap[i].concept_name = heap[j].concept_name => i = j
          /\ int(Tail(heap[i].concept_name)) <= counter)
  /\ [][\A i \in 1..Len(issued') :
          /\ int(issued'[i]) > counter
          /\ \A j \in 1..(i - 1) : int(issued'[j]) < int(issued'[i])]_vars

C9_Witness ==
  /\ last.op = "fringe"
  /\ Len(issued) >= 5
  /\ counter >= 10

\* C10: for a root with three children of one single-attribute
\* distribution, cu_for_merge of two of them with an instance is at least
\* the category utility of the root with the three kept apart.
C10_MergeAtLeastSeparate ==
  last.op = "cu_for_merge" => RLeq(last.separate, last.cu)

C10_Witness ==
  /\ last.op = "cu_for_merge"
  /\ RLess(last.separate, last.cu)
  /\ heap[last.best1].count # heap[last.best2].count

\* C11: the clustering k_cluster returns, for k >= 2, has at most k distinct
\* labels and exactly one label per instance given.
C11_AtMostKLabels ==
  (pc = "idle" /\ gen.k >= 2) =>
    /\ Len(gen.clustering) = gen.n
    /\ Cardinality(LabelSet(gen.clustering)) <= gen.k

\* k_cluster with k = 2 has returned two labels for three or more instances
\* after cluster_iter yielded a clustering of more than two.
C11_Witness ==
  /\ pc = "idle"
  /\ gen.k = 2
  /\ gen.n >= 3
  /\ Cardinality(LabelSet(gen.clustering)) = 2
  /\ gen.yields # <<>>
  /\ Cardinality(LabelSet(gen.yields[Len(gen.yields)])) > 2

\* The children of the root that have children.
Splittable(h) ==
  {h[tree_root].children[i] : i \in
     {j \in 1..Len(h[tree_root].children) :
        h[h[tree_root].children[j]].children # <<>>}}

\* The nodes below the root that have children.
InnerNodes(h) == {n \in Nodes(h, tree_root) \ {tree_root} : h[n].children # <<>>}

\* What is left for cluster_iter to do: the splits the tree allows, and
\* the yield of the iteration it is in.
ClusterMeasure ==
  2 * Cardinality(InnerNodes(heap))
  + (IF pc = "iter" /\ gen.nth_split >= gen.minsplit THEN 1 ELSE 0)

InCluster == pc \in {"iter", "split"}

\* One step of cluster_iter: it uses up some of what is left to do, it
\* splits only a child of the root that has children, and it ends the call
\* when it comes to split and no child of the root has children.
ClusterStepOk ==
  InCluster =>
    /\ pc' = "idle" \/ (InCluster' /\ ClusterMeasure' < ClusterMeasure)
    /\ gen'.nth_split <= gen.maxsplit + 1
    /\ gen'.split # gen.split =>
         /\ gen'.split = Append(gen.split, gen'.split[Len(gen'.split)])
         /\ gen'.split[Len(gen'.split)] \in Splittable(heap)
    /\ (Splittable(heap) = {}
        /\ (pc = "split" \/ gen.nth_split < gen.minsplit)) =>
         /\ pc' = "idle"
         /\ gen' = gen

\* C12: cluster_iter always finishes (every step of it uses up some of the
\* finite ClusterMeasure, or ends the call); with 1 <= minsplit <= maxsplit it
\* yields at most maxsplit - minsplit + 1 clusterings, it applies root.split
\* only to a child of the root that has children, and it stops as soon as no
\* child of the root has children, whether or not maxsplit was reached.
C12_ClusterIterFinishes ==
  /\ [][ClusterStepOk]_vars
  /\ [](Len(gen.yields) <= gen.maxsplit - gen.minsplit + 1)

\* cluster_iter has ended by itself before maxsplit, after a split: no child
\* of the root had children left.
C12_Witness ==
  /\ pc = "idle"
  /\ gen.split # <<>>
  /\ gen.yields # <<>>
  /\ gen.nth_split < gen.maxsplit
  /\ Cardinality(LabelSet(gen.yields[Len(gen.yields)])) <= gen.k
  /\ Splittable(heap) = {}

\* C13: two_best_children on a node without children fails with
\* "No children!" and leaves the node, its counts and its children, as it
\* was.
C13_NoChildren ==
  [][(last'.op = "two_best_children" /\ last' # last
      /\ heap[last'.node].children = <<>>) =>
       /\ last'.raised = "No children!"
       /\ last'.best1 = NoPair
       /\ heap' = heap]_vars

\* two_best_children has raised on a leaf below the root that holds
\* instances.
C13_Witness ==
  /\ last.op = "two_best_children"
  /\ last.raised = "No children!"
  /\ last.node # Root
  /\ heap[last.node].count > 0
  /\ heap[last.node].children = <<>>

\* What bounds the iterations of the loop of cobweb(): the number of nodes
\* at and below current.  'best' goes to a child, 'merge' to a new node
\* above two of more than two children, 'split' removes a child that has
\* children.
CobwebMeasure == Cardinality(Nodes(heap, current))

\* An iteration that returns: at a leaf, a newly created child, or the node
\* just pruned.
ReturnsOk ==
  /\ pc' = "idle"
  /\ \/ /\ last'.op = "absorb"
        /\ ret' = current
        /\ heap[current].children = <<>>
     \/ /\ last'.op \in {"fringe", "new"}
        /\ ret' > Len(heap)
        /\ heap'[ret'].parent = current
        /\ heap'[current].children[Len(heap'[current].children)] = ret'
     \/ /\ last'.op = "prune"
        /\ ret' = current
        /\ heap[current].children # <<>>
  /\ heap'[ret'].children = <<>>

\* An iteration that goes on, with less left to do.
ContinuesOk ==
  /\ pc' = "cobweb"
  /\ last'.op \in {"best", "merge", "split"}
  /\ Cardinality(Nodes(heap', current')) < CobwebMeasure

\* C14: every ifit terminates: each iteration of the loop of cobweb()
\* returns (at a leaf, a newly created child or a pruned node) or leaves
\* fewer nodes at and below current, so split and merge cannot repeat for
\* ever; and cobweb_categorize terminates at a leaf of the tree.
C14_Terminates ==
  [][/\ pc = "cobweb" => (ReturnsOk \/ ContinuesOk)
     /\ (last'.op = "categorize" /\ last' # last) =>
          /\ last'.leaf \in Nodes(heap', Root)
          /\ heap'[last'.leaf].children = <<>>]_vars

\* The loop goes on at the same node after a split, with the children of
\* the child split among its own.
C14_Witness ==
  /\ pc = "cobweb"
  /\ last.op = "split"
  /\ current = last.node
  /\ Len(heap[current].children) > 2

\* C15: the loop of cobweb() applies 'merge' only at a node with more than
\* two children, to two different children of it (best2 exists), and
\* 'split' only to a best child that has children.
C15_MergeSplitPreconditions ==
  [][pc = "cobweb" =>
       /\ last'.op = "merge" =>
            /\ Len(heap[current].children) > 2
            /\ last'.best2 # None
            /\ last'.best1 # last'.best2
            /\ {last'.best1, last'.best2} \subseteq ChildSet(heap, current)
       /\ last'.op = "split" =>
            /\ last'.best1 \in ChildSet(heap, current)
            /\ heap[last'.best1].children # <<>>]_vars

\* A merge has just been applied: the new node holds best1 and best2, and
\* its parent has two children or more left.
C15_Witness ==
  /\ pc = "cobweb"
  /\ last.op = "merge"
  /\ heap[current].children = <<last.best1, last.best2>>
  /\ Len(heap[last.node].children) >= 2

\* C16: each of cu_for_insert, cu_for_new_child, cu_for_merge, cu_for_split
\* and cu_for_fringe_split leaves every node of the tree as it was (count,
\* attribute-value counts, children, parent) and the instances as they were
\* (an instance is a value the evaluators read: increment_counts, lines
\* 90-95, takes its attributes and values and assigns nothing in it).
C16_EvaluatorsReadOnly ==
  [][(last'.op \in Evaluators /\ calls' = calls + 1) =>
       /\ heap' = heap
       /\ hist' = hist]_vars

\* cu_for_merge has returned for two children of a node, having
\* constructed its copies.
C16_Witness ==
  /\ last.op = "cu_for_merge"
  /\ last.constructed >= 3
  /\ calls = 1

\* The nodes a and b hold the same count and attribute-value counts.
SameCounts(a, b) == a.count = b.count /\ a.av_counts = b.av_counts

\* The leaf takes the instance, stays childless and is returned.
LeafTakesInstance ==
  /\ heap' = [heap EXCEPT ![current] = increment_counts(@, instance)]
  /\ heap'[current].children = <<>>
  /\ ret' = current

\* The leaf becomes a node with two new children, the first with what the
\* leaf held, the second with the instance alone; the node takes the
\* instance and the second child is returned.
LeafBecomesInner ==
  /\ Len(heap') = Len(heap) + 2
  /\ heap'[current].children = <<Len(heap) + 1, Len(heap) + 2>>
  /\ SameCounts(heap'[Len(heap) + 1], heap[current])
  /\ SameCounts(heap'[Len(heap) + 2],
                increment_counts(NewNode(<<>>), instance))
  /\ heap'[Len(heap) + 2].count = 1
  /\ \A c \in {Len(heap) + 1, Len(heap) + 2} :
       heap'[c].parent = current /\ heap'[c].children = <<>>
  /\ SameCounts(heap'[current], increment_counts(heap[current], instance))
  /\ heap'[current].parent = heap[current].parent
  /\ \A n \in 1..Len(heap) : n # current => heap'[n] = heap[n]
  /\ ret' = Len(heap) + 2

\* C17: at a leaf cobweb() does exactly one of two things.  If
\* cu_for_fringe_split(instance) <= min_cu the leaf's counts are incremented
\* by the instance, it stays childless and is returned.  Otherwise the leaf
\* becomes a node with exactly two children, the first with the leaf's
\* previous counts, the second with the instance alone (count 1); the node's
\* counts are incremented by the instance and the second child is returned.
C17_LeafStep ==
  [][AtLeaf =>
       /\ pc' = "idle"
       /\ IF RLeq(cu_for_fringe_split(Now, current, instance).cu, min_cu)
          THEN LeafTakesInstance /\ ~LeafBecomesInner
          ELSE LeafBecomesInner /\ ~LeafTakesInstance]_vars

\* A leaf below the root that held two instances has become a node with
\* two children.
C17_Witness ==
  /\ pc = "idle"
  /\ last.op = "fringe"
  /\ last.node # Root
  /\ heap[last.node].count = 3
  /\ Len(heap[last.node].children) = 2
  /\ ret = heap[last.node].children[2]

\* The counts of r are the sums of the counts of its children and of the
\* instance.
ConservedAhead(h, r, inst) ==
  LET kids == Kids(h, r)
  IN  /\ h[r].count = Sum([i \in 1..Len(kids) |-> kids[i].count]) + 1
      /\ \A p \in Pairs :
           h[r].av_counts[p] =
             Sum([i \in 1..Len(kids) |-> kids[i].av_counts[p]])
             + (IF p[1] \in DOMAIN inst /\ inst[p[1]] = p[2] THEN 1 ELSE 0)

\* C18 as claimed: at every point in time, between the iterations of the
\* loop of cobweb() included, the counts of every node of the tree that has
\* children are the sums of those of its children.
C18_ConservedAtEveryPoint ==
  \A r \in Nodes(heap, Root) :
    heap[r].children # <<>> => Conserved(heap, r)

\* C18, amended: the counts of every node that has children are the sums of
\* those of its children whenever no ifit is in progress; between the
\* iterations of the loop of cobweb() this holds of every node but the
\* parent of current, the node the last 'best' or 'merge' step left: it
\* already holds the instance, which none of its children holds yet.
C18_ConservedButAboveCurrent ==
  \A r \in Nodes(heap, Root) :
    heap[r].children # <<>> =>
      IF pc = "cobweb" /\ r = heap[current].parent
      THEN ConservedAhead(heap, r, instance)
      ELSE Conserved(heap, r)

\* The loop is at a node two levels below the root, after two steps that
\* went down.
C18_Witness ==
  /\ pc = "cobweb"
  /\ last.op \in {"best", "merge"}
  /\ heap[current].parent # None
  /\ heap[heap[current].parent].parent = Root

\* C19: a 'split' step changes no count.  It removes best1 from the
\* children of current and appends the children of best1, whose parent
\* becomes current; the count and the attribute-value counts of every node
\* stay as they were, and the loop goes on at the same node with the same
\* instance.
C19_SplitStep ==
  [][(pc = "cobweb" /\ last'.op = "split") =>
       /\ Len(heap') = Len(heap)
       /\ heap'[current].children =
            Remove(heap[current].children, last'.best1)
              \o heap[last'.best1].children
       /\ \A n \in 1..Len(heap) :
            /\ SameCounts(heap'[n], heap[n])
            /\ heap'[n].parent =
                 IF n \in ChildSet(heap, last'.best1) THEN current
                 ELSE heap[n].parent
            /\ n # current => heap'[n].children = heap[n].children
       /\ pc' = "cobweb"
       /\ current' = current
       /\ instance' = instance]_vars

\* The loop is at the node it was at, which holds the children of the
\* child split after the children it kept.
C19_Witness ==
  /\ pc = "cobweb"
  /\ last.op = "split"
  /\ current = last.node
  /\ last.best1 \notin ChildSet(heap, current)
  /\ heap[last.best1].children # <<>>
  /\ ChildSet(heap, last.best1) \subseteq ChildSet(heap, current)

\* The utilities cu_for_insert gives for the children cs of node, in order.
InsertCus(node, cs, inst) ==
  [i \in 1..Len(cs) |-> cu_for_insert(Now, node, cs[i], inst).cu] \o <<>>

\* The i-th of the utilities cus comes first among those at the positions
\* `among`: none is greater, and none before it is equal.
RankedFirst(cus, i, among) ==
  /\ i \in among
  /\ \A j \in among : ~RLess(cus[i], cus[j])
  /\ \A j \in among : j < i => RLess(cus[j], cus[i])

\* best1 and best2 are what the children cs with the utilities cus call for.
TwoBestOk(cs, cus, best1, best2) ==
  \E i \in 1..Len(cs) :
    /\ RankedFirst(cus, i, 1..Len(cs))
    /\ best1 = <<cus[i], cs[i]>>
    /\ IF Len(cs) = 1 THEN best2 = NoPair
       ELSE \E j \in 1..Len(cs) :
              /\ RankedFirst(cus, j, (1..Len(cs)) \ {i})
              /\ best2 = <<cus[j], cs[j]>>

\* C20: two_best_children returns the child with the highest cu_for_insert
\* as best1 and the one with the second highest as best2 (none when there
\* is one child); of children with equal cu_for_insert the one earlier in
\* the children list comes first; a call repeated on the same tree with the
\* same instance returns the same.
C20_TwoBest ==
  [][(last'.op = "two_best_children" /\ calls' = calls + 1
      /\ heap[last'.node].children # <<>>) =>
       /\ last'.raised = NoException
       /\ TwoBestOk(heap[last'.node].children,
                    InsertCus(last'.node, heap[last'.node].children,
                              last'.instance),
                    last'.best1, last'.best2)
       /\ last'.repeated =>
            /\ last'.best1 = last.best1
            /\ last'.best2 = last.best2]_vars

\* two_best_children has returned, for the second time, two children of
\* three or more with the same greatest utility, the earlier one first.
C20_Witness ==
  /\ last.op = "two_best_children"
  /\ last.repeated
  /\ last.raised = NoException
  /\ Len(heap[last.node].children) >= 3
  /\ last.best2 # NoPair
  /\ last.best1[1] = last.best2[1]
  /\ \E i, j \in 1..Len(heap[last.node].children) :
       /\ i < j
       /\ heap[last.node].children[i] = last.best1[2]
       /\ heap[last.node].children[j] = last.best2[2]

\* How many of the instances fitted have the value p[2] for the attribute
\* p[1].
Fitted(p) ==
  Cardinality({i \in 1..Len(hist) :
                 p[1] \in DOMAIN hist[i] /\ hist[i][p[1]] = p[2]})

\* C21: after n completed ifit calls on an initially empty tree the count
\* of the root is n and its count of every attribute-value pair is the
\* number of fitted instances that have the value, whichever operations
\* were chosen.
C21_RootHoldsEveryInstance ==
  pc = "idle" =>
    /\ heap[Root].count = Len(hist)
    /\ \A p \in Pairs : heap[Root].av_counts[p] = Fitted(p)

\* MaxInstances instances were fitted, two of them or more with the color
\* red, into a tree that has a node with children below the root.
C21_Witness ==
  /\ pc = "idle"
  /\ Len(hist) = MaxInstances
  /\ Fitted(<<"color", "red">>) >= 2
  /\ \E r \in Nodes(heap, Root) : r # Root /\ heap[r].children # <<>>

\* How many times c is in the children list of n.
Occurrences(h, n, c) ==
  Cardinality({i \in 1..Len(h[n].children) : h[n].children[i] = c})

\* C22: after any sequence of completed ifit calls and root.split calls,
\* every child of a node of the tree has that node as parent, the root has
\* no parent, and no node is in the children lists of two nodes of the tree
\* or twice in one.
C22_ParentLinks ==
  pc = "idle" =>
    /\ heap[Root].parent = None
    /\ \A n \in Nodes(heap, Root) :
         \A c \in ChildSet(heap, n) :
           /\ heap[c].parent = n
           /\ Occurrences(heap, n, c) = 1
           /\ \A m \in Nodes(heap, Root) :
                m # n => c \notin ChildSet(heap, m)

\* A tree of three levels, after a root.split call and an ifit call after
\* it.
C22_Witness ==
  /\ pc = "idle"
  /\ calls = 1
  /\ last.op # "none"
  /\ \E n \in ChildSet(heap, Root) : heap[n].children # <<>>

\* The labels of the root and of its children.
TopLabels(h) ==
  {cluster_label(h, n) : n \in {tree_root} \cup ChildSet(h, tree_root)}

\* C23: in every clustering cluster_iter yields, with mod or without, the
\* label of each instance is the id of a node that is in the tree at that
\* moment, the root or a child of the root; none names a node that
\* root.split has removed.
C23_LabelsNameTopNodes ==
  [][Len(gen'.yields) > Len(gen.yields) =>
       LabelSet(gen'.yields[Len(gen'.yields)]) \subseteq TopLabels(heap)]_vars

\* ------------------------------------------------------------- failures
\* The message of the exception a division by a count of zero raises.
ZeroDivisionError == "float division by zero"

\* The message of the exception operations[0] raises on an empty list.
IndexError == "list index out of range"

\* Lines 501-503 raise when the node has counted a value and its count is
\* zero: the division is made once for each value in av_counts.
expected_correct_guesses_raises(n) ==
  n.count = 0 /\ \E p \in Pairs : n.av_counts[p] > 0

\* Lines 513-522 raise when the node has a child and a count of zero, or
\* when expected_correct_guesses raises on the node or on a child.
category_utility_raises(h, self) ==
  /\ Len(h[self].children) > 0
  /\ \/ h[self].count = 0
     \/ expected_correct_guesses_raises(h[self])
     \/ \E i \in 1..Len(h[self].children) :
          expected_correct_guesses_raises(h[h[self].children[i]])

\* The nodes the evaluators called category_utility() on: the temp of each,
\* which is a node constructed after the first n that is the child of none
\* of them.
Temps(h, n) ==
  {t \in (n + 1)..Len(h) :
     \A u \in (n + 1)..Len(h) :
       \A i \in 1..Len(h[u].children) : h[u].children[i] # t}

\* What the evaluators that left the heap h raised.
Raised(h, n) ==
  IF \E t \in Temps(h, n) : category_utility_raises(h, t)
  THEN ZeroDivisionError
  ELSE NoException

\* Lines 442-445 and 406-419 on what get_best_operation computed.
Dispatched(g, n) ==
  IF Raised(g.mem.heap, n) # NoException THEN Raised(g.mem.heap, n)
  ELSE IF g.operations = <<>> THEN IndexError
  ELSE IF g.action[2] \notin {"best", "new", "merge", "split"}
  THEN "Should never get here."
  ELSE NoException

\* What an iteration of the loop of cobweb() at the node self raises.
Iteration(S, self, inst) ==
  IF S.heap[self].children = <<>>
  THEN Raised(cu_for_fringe_split(S, self, inst).mem.heap, Len(S.heap))
  ELSE LET tb == two_best_children(S, self, inst)
       IN  IF tb.raised # NoException THEN tb.raised
           ELSE Dispatched(get_best_operation(tb.mem, self, inst,
                                              tb.best1, tb.best2),
                           Len(S.heap))

\* C24: with the default min_cu of 0.0, on a tree grown from the empty tree
\* by ifit calls alone, no iteration of cobweb() raises: two_best_children
\* is not called on a node without children, the list of candidates is not
\* empty, the chosen action is one of the four, and neither
\* category_utility nor expected_correct_guesses divides by a count of zero.
C24_IfitNeverFails ==
  (pc = "cobweb" /\ min_cu = MinCuDefault /\ calls = 0) =>
    \A e \in {Iteration(Now, current, instance)} : e = NoException

\* An iteration under the default min_cu that weighed all four candidates,
\* in a call that began on the empty tree or on one grown from it.
C24_Witness ==
  /\ min_cu = MinCuDefault
  /\ calls = 0
  /\ last.op # "none"
  /\ Len(last.ops) = 4

\* ------------------------------------------------------------- sign
\* The heap an iteration of the loop of cobweb() at the node self leaves
\* before the nodes of its evaluators are collected.
IterationHeap(S, self, inst) ==
  IF S.heap[self].children = <<>>
  THEN cu_for_fringe_split(S, self, inst).mem.heap
  ELSE LET tb == two_best_children(S, self, inst)
       IN  get_best_operation(tb.mem, self, inst, tb.best1, tb.best2).mem.heap

\* The counts of r are the sums of those of its children, and each child
\* has a positive count.
ConservedPositive(h, r) ==
  /\ Conserved(h, r)
  /\ \A i \in 1..Len(h[r].children) : h[h[r].children[i]].count > 0

\* category_utility() of r is not negative.
NonNegative(h, r) == RLeq(Zero, category_utility(h, r))

\* C25: category_utility() of a node whose count and attribute-value
\* counts are the sums of those of its children, each child of a positive
\* count, is at least 0 in exact arithmetic; the nodes the evaluators
\* build during an ifit are such nodes, so every utility they compute is at
\* least 0.
C25_UtilityNonNegative ==
  /\ \A r \in 1..Len(heap) : ConservedPositive(heap, r) => NonNegative(heap, r)
  /\ pc = "cobweb" =>
       \A h \in {IterationHeap(Now, current, instance)} :
         \A t \in Temps(h, Len(heap)) :
           ConservedPositive(h, t) /\ NonNegative(h, t)

\* Inside ifit at a node with more than two children, where the evaluators
\* compute two different positive utilities.
C25_Witness ==
  /\ AtInner
  /\ Len(heap[current].children) > 2
  /\ \E h \in {IterationHeap(Now, current, instance)} :
       \E t, u \in Temps(h, Len(heap)) :
         /\ RLess(Zero, category_utility(h, t))
         /\ RLess(category_utility(h, t), category_utility(h, u))

====
